---- MODULE Spec2Model ----
(***************************************************************************)
(* A model of the PNG chunk codec of src/src/chunk.rs: Chunk::new,         *)
(* Chunk::try_from, the accessors and Display::fmt, driven by a caller     *)
(* that builds, serializes, edits and decodes byte buffers.                *)
(*                                                                         *)
(* A u8 is an integer 0..255.  A u32 is the record [hi, lo] of its two     *)
(* 16-bit halves (value hi * 65536 + lo): the model checker's integers are *)
(* 32-bit signed and cannot hold 4294967295.                               *)
(***************************************************************************)
EXTENDS Integers, Sequences, FiniteSets, TLC

----------------------------------------------------------------------------
(* Bounds of the model                                                      *)

\* payloads handed to Chunk::new are all byte strings over ByteAlphabet of
\* at most this length
MaxPayloadLen == 2

\* bytes of the payloads: line feed, 'A', and the two bytes of U+00E9
\* (0xC3 0xA9), which are valid UTF-8 in that order and invalid otherwise
ByteAlphabet == {10, 65, 169, 195}

----------------------------------------------------------------------------
(* 32-bit and byte arithmetic                                               *)

RECURSIVE XorN(_, _, _)
\* bitwise exclusive or of two n-bit naturals
XorN(a, b, n) ==
    IF n = 0 THEN 0
    ELSE ((a + b) % 2) + 2 * XorN(a \div 2, b \div 2, n - 1)

\* exclusive or by a table of the 4-bit cases
XorNibble == [a \in 0..15 |-> [b \in 0..15 |-> XorN(a, b, 4)]]

Xor8(a, b) ==
    XorNibble[a \div 16][b \div 16] * 16 + XorNibble[a % 16][b % 16]

Xor16(a, b) == Xor8(a \div 256, b \div 256) * 256 + Xor8(a % 256, b % 256)

U32Xor(x, y) == [hi |-> Xor16(x.hi, y.hi), lo |-> Xor16(x.lo, y.lo)]

\* x >> 1 and x >> 8 on a u32
U32Shr1(x) == [hi |-> x.hi \div 2, lo |-> (x.hi % 2) * 32768 + (x.lo \div 2)]
U32Shr8(x) == [hi |-> x.hi \div 256, lo |-> (x.hi % 256) * 256 + (x.lo \div 256)]

\* `n as u32` for a usize n: the low 32 bits
AsU32(n) == [hi |-> (n \div 65536) % 65536, lo |-> n % 65536]

\* the bytes read least significant first
from_le_bytes(b) == [hi |-> b[4] * 256 + b[3], lo |-> b[2] * 256 + b[1]]

\* u32::from_be_bytes([a, b, c, d]): the first byte is the most significant
from_be_bytes(b) == [hi |-> b[1] * 256 + b[2], lo |-> b[3] * 256 + b[4]]

\* u32::to_be_bytes
to_be_bytes(x) == <<x.hi \div 256, x.hi % 256, x.lo \div 256, x.lo % 256>>

----------------------------------------------------------------------------
(* crc::Crc::<u32>::new(&crc::CRC_32_ISO_HDLC).checksum                     *)
(* CRC-32/ISO-HDLC: polynomial 0x04C11DB7 reflected (0xEDB88320), initial   *)
(* value 0xFFFFFFFF, input and output reflected, final xor 0xFFFFFFFF.      *)

CrcPoly == [hi |-> 60856, lo |-> 33568]
CrcInit == [hi |-> 65535, lo |-> 65535]
CrcXorOut == [hi |-> 65535, lo |-> 65535]

RECURSIVE CrcBits(_, _)
\* k shift-and-conditionally-xor steps of the reflected algorithm
CrcBits(c, k) ==
    IF k = 0 THEN c
    ELSE CrcBits(IF c.lo % 2 = 1 THEN U32Xor(U32Shr1(c), CrcPoly)
                                 ELSE U32Shr1(c), k - 1)

\* the crate's 256-entry lookup table
CrcTable == [i \in 0..255 |-> CrcBits([hi |-> 0, lo |-> i], 8)]

CrcUpdate(c, byte) ==
    U32Xor(CrcTable[Xor8(c.lo % 256, byte)], U32Shr8(c))

RECURSIVE CrcFold(_, _, _)
\* the register c after bytes[1..i-1], run over the rest of the bytes
CrcFold(c, bytes, i) ==
    IF i > Len(bytes) THEN c
    ELSE LET d == CrcUpdate(c, bytes[i])
         IN  IF d.lo >= 0 THEN CrcFold(d, bytes, i + 1) ELSE d

checksum(bytes) == U32Xor(CrcFold(CrcInit, bytes, 1), CrcXorOut)

----------------------------------------------------------------------------
(* usize arithmetic and the iterator adaptors of Chunk::try_from            *)

\* a - b on usize.  With overflow checks the subtraction panics when a < b;
\* without them it wraps to 2^64 - deficit, which exceeds every Vec length.
UsizeSub(a, b) ==
    IF a >= b THEN [wrapped |-> FALSE, val |-> a - b]
              ELSE [wrapped |-> TRUE, deficit |-> b - a]

\* vec.iter(): the positions of the elements, in order
Iter(v) == [i \in 1..Len(v) |-> i]

\* .skip(n) and .take(n) with n a usize as UsizeSub returns it
Skip(it, n) ==
    IF n.wrapped \/ n.val >= Len(it) THEN <<>>
    ELSE SubSeq(it, n.val + 1, Len(it))

Take(it, n) ==
    IF n.wrapped \/ n.val >= Len(it) THEN it
    ELSE SubSeq(it, 1, n.val)

Usize(k) == [wrapped |-> FALSE, val |-> k]

\* .copied().collect::<Vec<u8>>(): the bytes at the positions
Collect(v, it) == [k \in 1..Len(it) |-> v[it[k]]]

\* the positions of a sequence of positions, as a set
Positions(it) == {it[k] : k \in 1..Len(it)}

----------------------------------------------------------------------------
(* ChunkType: the tuple struct ChunkType([u8; 4]) of the chunk_type module  *)

\* ChunkType(chunk_type), the constructor try_from uses
ChunkType(b) == <<b>>

\* chunk_type.bytes(): the raw 4 bytes
bytes(ct) == ct[1]

\* chunk_type.to_string(): the text of the 4 bytes
TypeText(ct) == ct[1]

----------------------------------------------------------------------------
(* Chunk                                                                    *)

NoChunk == [none |-> TRUE]

\* the checksum taken over the payload alone
new_crc_of_data(chunk_type, data) ==
    [kind  |-> "Ok",
     err   |-> "",
     fed   |-> data,
     chunk |-> [chunk_crc  |-> checksum(data),
                chunk_type |-> chunk_type,
                length     |-> AsU32(Len(data)),
                chunk_data |-> data]]

\* the length taken from the scratch buffer instead of the payload
new_length_of_scratch(chunk_type, data) ==
    LET chunk_type_data == bytes(chunk_type) \o data
    IN  [kind  |-> "Ok",
         err   |-> "",
         fed   |-> chunk_type_data,
         chunk |-> [chunk_crc  |-> checksum(chunk_type_data),
                    chunk_type |-> chunk_type,
                    length     |-> AsU32(Len(chunk_type_data)),
                    chunk_data |-> data]]

\* Chunk::new(chunk_type, data)
new(chunk_type, data) ==
    LET chunk_type_data == bytes(chunk_type) \o data
    IN  [kind  |-> "Ok",
         err   |-> "",
         fed   |-> chunk_type_data,
         chunk |-> [chunk_crc  |-> checksum(chunk_type_data),
                    chunk_type |-> chunk_type,
                    length     |-> AsU32(Len(data)),
                    chunk_data |-> data]]

\* accessors
length(self) == self.length
crc(self) == self.chunk_crc

\* a handle on the original's storage
share(v) == [val |-> v, shares |-> TRUE]

\* ChunkType::clone: a value of its own, sharing nothing with the original
clone(v) == [val |-> v, shares |-> FALSE]

chunk_type(self) == clone(self.chunk_type)

----------------------------------------------------------------------------
(* String::from_utf8: well-formed UTF-8 (Unicode Table 3-7)                 *)

IsCont(b) == b >= 128 /\ b <= 191

RECURSIVE Utf8From(_, _)
\* whether s[i..] is a sequence of well-formed UTF-8 scalar values
Utf8From(s, i) ==
    IF i > Len(s) THEN TRUE
    ELSE LET b == s[i]
             n == Len(s) - i
             c1 == s[i + 1]
             c2 == s[i + 2]
             c3 == s[i + 3]
         IN  IF b <= 127 THEN Utf8From(s, i + 1)
             ELSE IF b >= 194 /\ b <= 223
                  THEN n >= 1 /\ IsCont(c1) /\ Utf8From(s, i + 2)
             ELSE IF b >= 224 /\ b <= 239
                  THEN /\ n >= 2
                       /\ IF b = 224 THEN c1 >= 160 /\ c1 <= 191
                          ELSE IF b = 237 THEN c1 >= 128 /\ c1 <= 159
                          ELSE IsCont(c1)
                       /\ IsCont(c2)
                       /\ Utf8From(s, i + 3)
             ELSE IF b >= 240 /\ b <= 244
                  THEN /\ n >= 3
                       /\ IF b = 240 THEN c1 >= 144 /\ c1 <= 191
                          ELSE IF b = 244 THEN c1 >= 128 /\ c1 <= 143
                          ELSE IsCont(c1)
                       /\ IsCont(c2)
                       /\ IsCont(c3)
                       /\ Utf8From(s, i + 4)
             ELSE FALSE

\* String::from_utf8(vec): Ok(the same bytes as a String) or Err
from_utf8(vec) ==
    IF Utf8From(vec, 1) THEN [kind |-> "Ok", err |-> "", text |-> vec]
    ELSE [kind |-> "Err", err |-> "FromUtf8Error", text |-> <<>>]

\* Chunk::data_as_string
data_as_string(self) == from_utf8(self.chunk_data)

\* a rendering that replaces a payload that is not text instead of panicking
fmt_lossy(self) ==
    LET decoded == from_utf8(self.chunk_data)
    IN  [kind |-> "Ok", err |-> "",
         out |-> << [lit |-> "CRC: "],          [u32 |-> crc(self)],
                    [lit |-> ", Chunk type: "], [text |-> TypeText(self.chunk_type)],
                    [lit |-> ", Chunk data: "], [text |-> decoded.text],
                    [lit |-> ", Length: "],     [u32 |-> length(self)] >>]

\* <Chunk as Display>::fmt: the pieces write! emits, in order, or the panic
\* of expect("Chunk data err")
fmt(self) ==
    LET crc_v == crc(self)
        type_text == TypeText(self.chunk_type)
        decoded == from_utf8(self.chunk_data)
    IN  IF decoded.kind = "Err"
        THEN [kind |-> "Panic", err |-> "Chunk data err", out |-> <<>>]
        ELSE [kind |-> "Ok", err |-> "",
              out |-> << [lit |-> "CRC: "],          [u32 |-> crc_v],
                         [lit |-> ", Chunk type: "], [text |-> type_text],
                         [lit |-> ", Chunk data: "], [text |-> decoded.text],
                         [lit |-> ", Length: "],     [u32 |-> length(self)] >>]

----------------------------------------------------------------------------
(* Chunk::try_from(value), under a build with or without overflow checks    *)

\* a comparison of the low 16 bits only
crc_mismatch_low_half(crc_v, crc_data) == crc_v.lo # from_be_bytes(crc_data).lo

\* crc != u32::from_be_bytes(crc_data)
crc_mismatch(crc_v, crc_data) == crc_v # from_be_bytes(crc_data)

\* a Chunk whose length is derived from the payload slice
decoded_derived_length(crc_v, type_v, message, length_v) ==
    [chunk_crc  |-> crc_v,
     chunk_type |-> ChunkType(type_v),
     chunk_data |-> message,
     length     |-> AsU32(Len(message))]

\* Chunk { chunk_crc: crc, chunk_type: ChunkType(chunk_type),
\*         chunk_data: message, length: u32::from_be_bytes(length) }
decoded(crc_v, type_v, message, length_v) ==
    [chunk_crc  |-> crc_v,
     chunk_type |-> ChunkType(type_v),
     chunk_data |-> message,
     length     |-> from_be_bytes(length_v)]

\* The result also records which positions of the buffer were fed to the
\* checksum (fed_at) and which were read as the trailer (crc_at).
try_from(value, overflow_checks) ==
    LET vec_clone    == value
        length_v     == Collect(vec_clone, Take(Iter(vec_clone), Usize(4)))
        type_it      == Take(Skip(Iter(vec_clone), Usize(4)), Usize(4))
        type_v       == Collect(vec_clone, type_it)
        n_message    == UsizeSub(Len(value), 12)
        message_it   == Take(Skip(Iter(vec_clone), Usize(8)), n_message)
        message      == Collect(vec_clone, message_it)
        n_crc        == UsizeSub(Len(value), 4)
        crc_it       == Take(Skip(Iter(vec_clone), n_crc), Usize(4))
        crc_data     == Collect(vec_clone, crc_it)
        chunk_type_data == type_v \o message
        crc_v        == checksum(chunk_type_data)
        Fail(k, e)   == [kind |-> k, err |-> e, chunk |-> NoChunk,
                         fed_at |-> {}, crc_at |-> {}]
    IN  IF Len(length_v) # 4 THEN Fail("Err", "Length err")
        ELSE IF Len(type_v) # 4 THEN Fail("Err", "Chunk type error")
        ELSE IF n_message.wrapped /\ overflow_checks
             THEN Fail("Panic", "attempt to subtract with overflow")
        ELSE IF n_crc.wrapped /\ overflow_checks
             THEN Fail("Panic", "attempt to subtract with overflow")
        ELSE IF Len(crc_data) # 4 THEN Fail("Err", "Crc err")
        ELSE IF crc_mismatch(crc_v, crc_data) THEN
             [kind |-> "Err", err |-> "Crc Err", chunk |-> NoChunk,
              fed_at |-> Positions(type_it) \cup Positions(message_it),
              crc_at |-> Positions(crc_it)]
        ELSE [kind |-> "Ok", err |-> "",
              chunk |-> decoded(crc_v, type_v, message, length_v),
              fed_at |-> Positions(type_it) \cup Positions(message_it),
              crc_at |-> Positions(crc_it)]

----------------------------------------------------------------------------
(* The buffers the tests build and the inputs of the model                  *)

\* data_length.to_be_bytes().iter().chain(chunk_type.iter())
\*     .chain(message_bytes.iter()).chain(crc.to_be_bytes().iter())
chunk_data_bytes(data_length, chunk_type_bytes, message_bytes, crc_v) ==
    to_be_bytes(data_length) \o chunk_type_bytes \o message_bytes
        \o to_be_bytes(crc_v)

\* the layout of a Chunk: 4-byte big-endian length, type, payload,
\* 4-byte big-endian CRC
serialize(c) ==
    chunk_data_bytes(c.length, bytes(c.chunk_type), c.chunk_data, c.chunk_crc)

\* "RuSt"
RuSt == <<82, 117, 83, 116>>

\* "This is where your secret message will be!"
SecretMessage ==
    << 84, 104, 105, 115, 32, 105, 115, 32, 119, 104, 101, 114, 101, 32,
       121, 111, 117, 114, 32, 115, 101, 99, 114, 101, 116, 32, 109, 101,
       115, 115, 97, 103, 101, 32, 119, 105, 108, 108, 32, 98, 101, 33 >>

\* data_length: u32 = 42
FixtureLength == [hi |-> 0, lo |-> 42]

\* crc: u32 = 2882656334 and the tests' wrong crc 2882656333
FixtureCrc == [hi |-> 43985, lo |-> 55374]
FixtureBadCrc == [hi |-> 43985, lo |-> 55373]

\* the buffer of testing_chunk and the one of test_invalid_chunk_from_bytes
Fixture == chunk_data_bytes(FixtureLength, RuSt, SecretMessage, FixtureCrc)
BadFixture == chunk_data_bytes(FixtureLength, RuSt, SecretMessage, FixtureBadCrc)

\* buffers of 8 and 9 bytes whose last 4 bytes are the CRC-32 of bytes[4..]
Short8 == <<0, 0, 0, 0, 255, 255, 255, 255>>
Short9 == <<0, 0, 0, 0, 1, 151, 211, 184, 67>>

RawInputs == {Fixture, BadFixture, Short8, Short9}

RECURSIVE SeqsUpTo(_, _)
\* the sequences over S of length at most n
SeqsUpTo(S, n) ==
    IF n = 0 THEN {<<>>}
    ELSE LET shorter == SeqsUpTo(S, n - 1)
         IN  shorter \cup {Append(t, x) : t \in shorter, x \in S}

Payloads == SeqsUpTo(ByteAlphabet, MaxPayloadLen)

\* type tags: "RuSt", and one that is not text
Tags == {RuSt, <<255, 255, 255, 255>>}

NewInputs == (Tags \X Payloads) \cup {<<RuSt, SecretMessage>>}

\* byte b with bit k flipped
FlipBit(b, k) ==
    LET w == 2 ^ k
    IN  IF (b \div w) % 2 = 1 THEN b - w ELSE b + w

----------------------------------------------------------------------------
(* The caller                                                               *)

VARIABLES
    overflow_checks,  \* whether the build panics on integer overflow
    buf,              \* the byte buffer the caller holds
    chunk,            \* the Chunk the caller holds, or NoChunk
    ret,              \* the last call and what it returned
    hist              \* how buf came about (history)

vars == <<overflow_checks, buf, chunk, ret, hist>>

NoHist == [src |-> "none", orig |-> NoChunk, edit |-> "none",
           accepted |-> FALSE, parsed |-> FALSE]

Init ==
    /\ overflow_checks \in BOOLEAN
    /\ buf = <<>>
    /\ chunk = NoChunk
    /\ ret = [op |-> "none"]
    /\ hist = NoHist

\* let chunk = Chunk::new(ChunkType(tag), data)
New(tag, data) ==
    /\ hist.src = "none"
    /\ chunk = NoChunk
    /\ LET r == new(ChunkType(tag), data)
       IN  /\ chunk' = r.chunk
           /\ ret' = [op |-> "new", res |-> r, tag |-> tag, data |-> data]
    /\ UNCHANGED <<overflow_checks, buf, hist>>

\* the caller writes its chunk out in the wire layout
Serialize ==
    /\ hist.src = "none"
    /\ chunk # NoChunk
    /\ buf' = serialize(chunk)
    /\ hist' = [hist EXCEPT !.src = "serialized", !.orig = chunk]
    /\ ret' = [op |-> "serialize"]
    /\ UNCHANGED <<overflow_checks, chunk>>

\* the caller is handed a buffer from outside
Receive(b) ==
    /\ hist.src = "none"
    /\ chunk = NoChunk
    /\ buf' = b
    /\ hist' = [hist EXCEPT !.src = IF b = Fixture THEN "fixture" ELSE "received"]
    /\ ret' = [op |-> "receive"]
    /\ UNCHANGED <<overflow_checks, chunk>>

Editable == hist.src # "none" /\ hist.edit = "none" /\ ~hist.parsed

\* bit k (0..31, 0 the lowest) of the trailing 4 bytes is flipped
Tamper(k) ==
    /\ Editable
    /\ Len(buf) >= 4
    /\ LET pos == Len(buf) - (k \div 8)
       IN  buf' = [buf EXCEPT ![pos] = FlipBit(buf[pos], k % 8)]
    /\ hist' = [hist EXCEPT !.edit = "tamper",
                            !.accepted = try_from(buf, overflow_checks).kind = "Ok"]
    /\ ret' = [op |-> "edit"]
    /\ UNCHANGED <<overflow_checks, chunk>>

\* the low bit of a byte before the trailing 4 bytes is flipped
FlipByte(pos) ==
    /\ Editable
    /\ pos \in 1..(Len(buf) - 4)
    /\ buf' = [buf EXCEPT ![pos] = FlipBit(buf[pos], 0)]
    /\ hist' = [hist EXCEPT !.edit = "flip"]
    /\ ret' = [op |-> "edit"]
    /\ UNCHANGED <<overflow_checks, chunk>>

\* the buffer is cut to its first n bytes
Truncate(n) ==
    /\ Editable
    /\ n \in 0..(Len(buf) - 1)
    /\ buf' = SubSeq(buf, 1, n)
    /\ hist' = [hist EXCEPT !.edit = "truncate"]
    /\ ret' = [op |-> "edit"]
    /\ UNCHANGED <<overflow_checks, chunk>>

\* Chunk::try_from(&buf); on Ok the caller keeps the decoded Chunk
TryFrom ==
    /\ hist.src # "none"
    /\ ~hist.parsed
    /\ LET r == try_from(buf, overflow_checks)
       IN  /\ ret' = [op |-> "try_from", res |-> r]
           /\ chunk' = IF r.kind = "Ok" THEN r.chunk ELSE chunk
    /\ hist' = [hist EXCEPT !.parsed = TRUE]
    /\ UNCHANGED <<overflow_checks, buf>>

\* the caller may read a Chunk it got from new or after a try_from
Readable == chunk # NoChunk /\ (hist.src = "none" \/ hist.parsed)

Length ==
    /\ Readable
    /\ ret' = [op |-> "length", val |-> length(chunk)]
    /\ UNCHANGED <<overflow_checks, buf, chunk, hist>>

Crc ==
    /\ Readable
    /\ ret' = [op |-> "crc", val |-> crc(chunk)]
    /\ UNCHANGED <<overflow_checks, buf, chunk, hist>>

GetChunkType ==
    /\ Readable
    /\ ret' = [op |-> "chunk_type", val |-> chunk_type(chunk)]
    /\ UNCHANGED <<overflow_checks, buf, chunk, hist>>

DataAsString ==
    /\ Readable
    /\ ret' = [op |-> "data_as_string", res |-> data_as_string(chunk)]
    /\ UNCHANGED <<overflow_checks, buf, chunk, hist>>

\* format!("{}", chunk)
Fmt ==
    /\ Readable
    /\ ret' = [op |-> "fmt", res |-> fmt(chunk)]
    /\ UNCHANGED <<overflow_checks, buf, chunk, hist>>

\* the caller overwrites the ChunkType that chunk_type() returned; a value
\* that shared storage with the Chunk would change the Chunk too
OverwriteReturned ==
    /\ ret.op = "chunk_type"
    /\ LET w == ChunkType(<<0, 0, 0, 0>>)
       IN  /\ ret.val.val # w
           /\ ret' = [op |-> "overwrite", val |-> [ret.val EXCEPT !.val = w]]
           /\ chunk' = IF ret.val.shares
                       THEN [chunk EXCEPT !.chunk_type = w] ELSE chunk
    /\ UNCHANGED <<overflow_checks, buf, hist>>

Next ==
    \/ \E in \in NewInputs : New(in[1], in[2])
    \/ Serialize
    \/ \E b \in RawInputs : Receive(b)
    \/ \E k \in 0..31 : Tamper(k)
    \/ \E pos \in 1..Len(buf) : FlipByte(pos)
    \/ \E n \in 0..Len(buf) : Truncate(n)
    \/ TryFrom
    \/ Length
    \/ Crc
    \/ GetChunkType
    \/ DataAsString
    \/ Fmt
    \/ OverwriteReturned

Spec == Init /\ [][Next]_vars

----------------------------------------------------------------------------
(* Properties                                                               *)

Returned == ret.op \in {"new", "try_from"} /\ ret.res.kind = "Ok"

Zero32 == [hi |-> 0, lo |-> 0]

\* the value of the 4 bytes of s from position i, most significant first
BigEndianAt(s, i) ==
    [hi |-> s[i] * 256 + s[i + 1], lo |-> s[i + 2] * 256 + s[i + 3]]

\* the stored checksum is the CRC-32 of the type bytes followed by the payload
CrcInvariantOf(c) ==
    c.chunk_crc = checksum(c.chunk_type[1] \o c.chunk_data)

\* C1: every Chunk returned by Chunk::new or by a successful Chunk::try_from
\* has chunk_crc = CRC32(type bytes ++ payload bytes), and the bytes of the
\* length field and of the trailer are never part of the checksum input.
C1_CrcOverTypeAndPayloadOnly ==
    Returned =>
        /\ CrcInvariantOf(ret.res.chunk)
        /\ ret.op = "new" =>
               ret.res.fed = ret.tag \o ret.data
        /\ ret.op = "try_from" =>
               /\ ret.res.fed_at \cap (1..4) = {}
               /\ ret.res.fed_at \cap ret.res.crc_at = {}

\* the part of C1 that holds of every returned Chunk: the stored checksum
\* is the CRC-32 of type bytes ++ payload bytes
C1_CrcEquality == Returned => CrcInvariantOf(ret.res.chunk)

\* C2: for every buffer of 0 to 11 bytes Chunk::try_from returns a
\* structural error (an Err other than the CRC mismatch) and no Chunk, and
\* does not panic.
C2_TruncatedIsStructuralError ==
    (ret.op = "try_from" /\ Len(buf) <= 11) =>
        /\ ret.res.kind = "Err"
        /\ ret.res.err # "Crc Err"
        /\ ret.res.chunk = NoChunk

\* C3: decoding the serialization of Chunk::new(tag, payload) succeeds and
\* yields the same length, chunk_type, chunk_data and chunk_crc.
C3_RoundTrip ==
    (ret.op = "try_from" /\ hist.src = "serialized" /\ hist.edit = "none") =>
        /\ ret.res.kind = "Ok"
        /\ ret.res.chunk.length = hist.orig.length
        /\ ret.res.chunk.chunk_type = hist.orig.chunk_type
        /\ ret.res.chunk.chunk_data = hist.orig.chunk_data
        /\ ret.res.chunk.chunk_crc = hist.orig.chunk_crc

C3_Witness ==
    /\ ret.op = "try_from" /\ hist.src = "serialized" /\ hist.edit = "none"
    /\ ret.res.kind = "Ok"
    /\ Len(hist.orig.chunk_data) = MaxPayloadLen
    /\ ret.res.chunk = hist.orig

\* C4: flipping any single bit of the last 4 bytes of a buffer that
\* Chunk::try_from accepts makes it return the CRC mismatch error and no
\* Chunk.
C4_TamperDetected ==
    (ret.op = "try_from" /\ hist.edit = "tamper" /\ hist.accepted) =>
        /\ ret.res.kind = "Err"
        /\ ret.res.err = "Crc Err"
        /\ ret.res.chunk = NoChunk

C4_Witness ==
    /\ ret.op = "try_from" /\ hist.edit = "tamper" /\ hist.accepted
    /\ hist.src = "serialized"
    /\ ret.res.err = "Crc Err"

\* C5: Chunk::new always returns a Chunk, whose length is the number of
\* bytes of the data it stores; for the empty payload the length is 0.
C5_NewLength ==
    ret.op = "new" =>
        /\ ret.res.kind = "Ok"
        /\ ret.res.chunk.chunk_data = ret.data
        /\ ret.res.chunk.length.hi = 0
        /\ ret.res.chunk.length.lo = Len(ret.res.chunk.chunk_data)
        /\ ret.data = <<>> => length(ret.res.chunk) = Zero32

C5_Witness ==
    /\ ret.op = "new"
    /\ ret.data = <<>>
    /\ ret.res.kind = "Ok"
    /\ length(ret.res.chunk) = Zero32

\* C6: a buffer of T >= 12 bytes that Chunk::try_from accepts yields
\* length = big-endian bytes[0..4] (the declared value), chunk_type =
\* bytes[4..8], chunk_data = bytes[8..T-4] and chunk_crc = big-endian
\* bytes[T-4..T].
C6_FieldLayout ==
    (ret.op = "try_from" /\ Len(buf) >= 12 /\ ret.res.kind = "Ok") =>
        LET T == Len(buf)
            c == ret.res.chunk
        IN  /\ c.length = BigEndianAt(buf, 1)
            /\ c.chunk_type[1] = SubSeq(buf, 5, 8)
            /\ c.chunk_data = SubSeq(buf, 9, T - 4)
            /\ Len(c.chunk_data) = T - 12
            /\ c.chunk_crc = BigEndianAt(buf, T - 3)

\* an accepted buffer whose declared length is not T - 12
C6_Witness ==
    /\ ret.op = "try_from" /\ Len(buf) >= 12 /\ ret.res.kind = "Ok"
    /\ ret.res.chunk.length # [hi |-> 0, lo |-> Len(buf) - 12]
    /\ ret.res.chunk.length = BigEndianAt(buf, 1)
    /\ Len(ret.res.chunk.chunk_data) = Len(buf) - 12

DecodedFixture ==
    ret.op = "try_from" /\ hist.src = "fixture" /\ hist.edit = "none"

\* C7 as stated: the payload of the fixture is 44 bytes long, the declared
\* length 42 differs from it, and decoding the fixture returns length 42.
C7_PayloadIs44Bytes ==
    DecodedFixture =>
        /\ ret.res.kind = "Ok"
        /\ Len(ret.res.chunk.chunk_data) = 44
        /\ ret.res.chunk.length # AsU32(Len(ret.res.chunk.chunk_data))
        /\ length(ret.res.chunk) = FixtureLength

\* C7, amended: the payload of the fixture is 42 bytes long, equal to the
\* declared length 42, and decoding the fixture returns length 42 (with the
\* fixture's type, payload and crc).
C7_PayloadIs42Bytes ==
    DecodedFixture =>
        /\ ret.res.kind = "Ok"
        /\ ret.res.chunk.chunk_data = SecretMessage
        /\ Len(ret.res.chunk.chunk_data) = 42
        /\ ret.res.chunk.length.hi = 0
        /\ ret.res.chunk.length.lo = Len(ret.res.chunk.chunk_data)
        /\ length(ret.res.chunk) = FixtureLength
        /\ crc(ret.res.chunk) = FixtureCrc
        /\ ret.res.chunk.chunk_type[1] = RuSt

C7_Witness ==
    /\ DecodedFixture
    /\ ret.res.kind = "Ok"
    /\ ret.res.chunk.length.lo = 42

\* C8: the size check comes first; a buffer of T >= 12 bytes is accepted
\* exactly when CRC32(bytes[4..T-4]) is the big-endian value of
\* bytes[T-4..T], and is otherwise rejected with the CRC mismatch error and
\* no Chunk; the CRC mismatch error is returned only for buffers of at
\* least 12 bytes.
C8_AcceptanceCondition ==
    ret.op = "try_from" =>
        LET T == Len(buf)
        IN  /\ T >= 12 =>
                  /\ ret.res.kind = "Ok" <=>
                         checksum(SubSeq(buf, 5, T - 4)) = BigEndianAt(buf, T - 3)
                  /\ ret.res.kind # "Ok" =>
                         /\ ret.res.kind = "Err"
                         /\ ret.res.err = "Crc Err"
                         /\ ret.res.chunk = NoChunk
            /\ (ret.res.kind = "Err" /\ ret.res.err = "Crc Err") => T >= 12

\* the part of C8 about buffers of at least 12 bytes
C8_AtLeast12Bytes ==
    (ret.op = "try_from" /\ Len(buf) >= 12) =>
        LET T == Len(buf)
        IN  /\ ret.res.kind = "Ok" <=>
                   checksum(SubSeq(buf, 5, T - 4)) = BigEndianAt(buf, T - 3)
            /\ ret.res.kind # "Ok" =>
                   /\ ret.res.kind = "Err"
                   /\ ret.res.err = "Crc Err"
                   /\ ret.res.chunk = NoChunk

\* the number of lines of a rendering: one more than its line feeds
LineFeeds(text) == Cardinality({k \in 1..Len(text) : text[k] = 10})
Lines(out) == 1 + LineFeeds(out[4].text) + LineFeeds(out[6].text)

\* the values of a rendering are the crc, the type text, the payload text
\* and the length, in that order, each after its label
RendersFieldsInOrder(out, c) ==
    /\ Len(out) = 8
    /\ out[1] = [lit |-> "CRC: "]
    /\ out[2] = [u32 |-> c.chunk_crc]
    /\ out[3] = [lit |-> ", Chunk type: "]
    /\ out[4] = [text |-> c.chunk_type[1]]
    /\ out[5] = [lit |-> ", Chunk data: "]
    /\ out[6] = [text |-> c.chunk_data]
    /\ out[7] = [lit |-> ", Length: "]
    /\ out[8] = [u32 |-> c.length]

\* C9 as stated: a valid UTF-8 payload renders as one line holding crc,
\* type, payload and length in that order; any other payload makes the
\* rendering panic.
C9_RendersOneLine ==
    ret.op = "fmt" =>
        IF Utf8From(chunk.chunk_data, 1)
        THEN /\ ret.res.kind = "Ok"
             /\ RendersFieldsInOrder(ret.res.out, chunk)
             /\ Lines(ret.res.out) = 1
        ELSE ret.res.kind = "Panic"

\* C9, amended: a valid UTF-8 payload renders as one string holding crc,
\* type, payload and length in that order, with no line break but those of
\* the type text and the payload text; any other payload makes the
\* rendering panic.
C9_Renders ==
    ret.op = "fmt" =>
        IF Utf8From(chunk.chunk_data, 1)
        THEN /\ ret.res.kind = "Ok"
             /\ RendersFieldsInOrder(ret.res.out, chunk)
             /\ Lines(ret.res.out)
                  = 1 + LineFeeds(chunk.chunk_type[1]) + LineFeeds(chunk.chunk_data)
        ELSE /\ ret.res.kind = "Panic"
             /\ ret.res.out = <<>>

\* a Chunk that try_from accepted and whose rendering panics
C9_Witness ==
    /\ ret.op = "fmt"
    /\ hist.parsed
    /\ chunk # NoChunk
    /\ ~Utf8From(chunk.chunk_data, 1)
    /\ ret.res.kind = "Panic"

ReadOps == {"length", "crc", "chunk_type", "data_as_string", "fmt"}

\* C10: length(), crc(), chunk_type(), data_as_string() (Ok or Err) and
\* rendering leave the four fields of the Chunk and the buffer as they were,
\* and the CRC invariant still holds; what chunk_type() returned can be
\* overwritten without changing the Chunk; Chunk::try_from leaves its
\* buffer as it was.
C10_ReadsChangeNothing ==
    [][ /\ ret'.op \in ReadOps =>
            /\ chunk' = chunk
            /\ buf' = buf
            /\ CrcInvariantOf(chunk')
        /\ ret'.op = "overwrite" =>
            /\ chunk' = chunk
            /\ CrcInvariantOf(chunk')
        /\ ret'.op = "try_from" => buf' = buf ]_vars

\* a failed data_as_string() on a Chunk that is still well-formed
C10_Witness ==
    /\ ret.op = "data_as_string"
    /\ ret.res.kind = "Err"
    /\ chunk # NoChunk
    /\ CrcInvariantOf(chunk)

====
